---- MODULE Spec2Model ----
(***************************************************************************)
(* Model of chemdesc/descriptors.py: the Descriptor base class (geometry   *)
(* caching, per-row transformation, the parallel batch driver), its        *)
(* cache-backed variants CoulombMatrixDesc, SOAPDesc and MBTRDesc, the     *)
(* stateless RandomGaussianVectorDesc and the stateful ShinglesVectDesc.   *)
(*                                                                         *)
(* External collaborators (RDKit parser, force-field geometry functions,   *)
(* DScribe builders, joblib Memory and Parallel, the shingle extractor)    *)
(* are modelled by the outcomes the calling code distinguishes.            *)
(***************************************************************************)
EXTENDS Integers, Sequences, FiniteSets, TLC

\* ------------------------------------------------------------------ bounds
\* Longest input list X handed to one transform call.
MaxLen == 2
\* Longest input list handed to the second instance.
MaxLenOther == 1
\* Number of transform calls started in one behaviour.
MaxCalls == 2

\* ------------------------------------------------------------ input domain
\* SMILES strings given by callers: H2, water, water written differently,
\* the empty string, and a string the parser rejects.
Smiles == {"[H][H]", "O", "[OH2]", "", "C("}

\* rdkit MolFromSmiles: None for a string that does not parse, else the
\* molecule (identified by its canonical SMILES).
MolFromSmiles(smiles) ==
    IF smiles = "C(" THEN [ok |-> FALSE, mol |-> ""]
    ELSE IF smiles = "[OH2]" THEN [ok |-> TRUE, mol |-> "O"]
    ELSE [ok |-> TRUE, mol |-> smiles]

\* rdkit MolToSmiles: raises (Boost.Python.ArgumentError) on None.
MolToSmiles(m) ==
    IF m.ok THEN [raised |-> FALSE, smiles |-> m.mol]
    ELSE [raised |-> TRUE, smiles |-> ""]

\* Atoms of the molecule with explicit hydrogens, as the geometry holds them.
NAtoms(csmi) ==
    IF csmi = "[H][H]" THEN 2 ELSE IF csmi = "O" THEN 3 ELSE 0

\* Does the molecule hold only the species the builder was configured with.
SpeciesCover(species, csmi) ==
    IF species = "default" THEN TRUE ELSE csmi = "[H][H]"

\* ------------------------------------------------------------ configuration
\* MM_program_parameters: None, or a dict given as a set of (key, value).
ParamsNone == [none |-> TRUE, kw |-> {}]
ParamsFew == [none |-> FALSE, kw |-> {<<"max_iterations", 1>>}]

\* Descriptor.__init__: the geometry function chosen from MM_program.
GeometryFunctionName(MM_program) ==
    IF MM_program = "obabel" \/ MM_program = "obabel_mmff94"
    THEN "obabel_mmff94_xyz"
    ELSE "rdkit_mm_xyz"

IsRdkit(MM_program) == MM_program \in {"rdkit", "rdkit_mmff94", "rdkit_uff"}

\* Descriptor.__init__: geometry_function_parameters.
GeometryFunctionParameters(MM_program, params) ==
    IF params.none /\ IsRdkit(MM_program) THEN {<<"max_iterations", 500>>}
    ELSE IF params.none THEN {}
    ELSE params.kw

Config(variant, MM_program, params, n_atoms_max, average, species, n_jobs, cache_location) ==
    [variant |-> variant, MM_program |-> MM_program,
     MM_program_parameters |-> params, n_atoms_max |-> n_atoms_max,
     average |-> average, species |-> species, n_jobs |-> n_jobs,
     vect_size |-> IF variant = "Random" THEN 2 ELSE 0,
     cache_location |-> cache_location]

\* SOAPDesc.__init__: n_atoms_max defaults to 100 only when averaging is
\* off; the model's configurations always pass it (0 stands for None).
\* cache_location is "dir", the directory the instances share, or "None".
Configs ==
    { Config("CM", mm, ParamsNone, 2, "-", "-", 2, "dir") :
          mm \in {"rdkit_mmff94", "rdkit_uff"} }
    \cup { Config("CM", "rdkit_mmff94", ParamsFew, 2, "-", "-", 1, "dir") }
    \cup { Config("SOAP", "obabel_mmff94", ParamsNone, 2, "off", "default", 2, "dir"),
           Config("SOAP", "rdkit_uff", ParamsNone, 3, "off", "H", 1, "dir"),
           Config("SOAP", "rdkit", ParamsNone, 0, "inner", "default", 1, "dir") }
    \cup { Config("MBTR", "obabel", ParamsNone, 0, "-", "default", 1, "None"),
           Config("MBTR", "rdkit", ParamsNone, 0, "-", "default", 1, "dir") }
    \cup { Config("Random", "obabel_mmff94", ParamsNone, 0, "-", "-", 2, "None") }

\* Two descriptor instances (possibly in different processes) that were
\* constructed with the same cache_location.
Inst == {"a", "b"}

\* ------------------------------------------------------------------ vectors
Zeros(n) == [i \in 1..n |-> 0]

IsZero(v) == \A i \in 1..Len(v) : v[i] = 0

\* ---------------------------------------------------------------- geometry
\* What the geometry function does for (smiles, ff, **parameters): raises
\* for a molecule without atoms, reports success = False when the
\* optimisation is cut short, else returns the XYZ text.  The XYZ text is
\* identified by the molecule and the force field that produced it.
GeomCode(func, ff) ==
    IF func = "obabel_mmff94_xyz" THEN 1 ELSE IF ff = "UFF" THEN 3 ELSE 2

geometry_function(func, smiles, ff, kw) ==
    IF smiles = "" THEN [raised |-> TRUE, xyz |-> 0, success |-> FALSE]
    ELSE IF \E p \in kw : p[1] = "max_iterations" /\ p[2] < 2
    THEN [raised |-> FALSE, xyz |-> 0, success |-> FALSE]
    ELSE [raised |-> FALSE, xyz |-> GeomCode(func, ff), success |-> TRUE]

\* compute_geometry: the arguments of self.cache_geom_fun, which joblib
\* hashes (with the function) into the geometry-cache key.
GeomKey(c, smiles) ==
    [func |-> GeometryFunctionName(c.MM_program),
     smiles |-> smiles,
     ff |-> IF c.MM_program = "rdkit_uff" THEN "UFF" ELSE "default",
     kw |-> GeometryFunctionParameters(c.MM_program, c.MM_program_parameters)]

NoAse == [smiles |-> "", natoms |-> 0, code |-> 0]

\* ase.io.read of the XYZ text.
read_ase(smiles, xyz) == [smiles |-> smiles, natoms |-> NAtoms(smiles), code |-> xyz]

\* ---------------------------------------------------------------- builders
\* builder.get_number_of_features() of the configured DScribe builder.
get_number_of_features(c) ==
    IF c.variant = "CM" THEN c.n_atoms_max * c.n_atoms_max
    ELSE IF c.species = "default" THEN 2 ELSE 1

\* Value the builder writes for an atom (pair) of a geometry.
AtomValue(ase) == 10 * ase.natoms + ase.code

\* builder.create(ase_mol).reshape((-1,)): the Coulomb matrix is padded
\* with zeros to n_atoms_max and raises for a larger molecule; SOAP and
\* MBTR raise for a species outside their list; SOAP without averaging
\* gives one sub-vector per atom.
BuilderCreate(c, ase) ==
    IF c.variant = "CM"
    THEN IF ase.natoms > c.n_atoms_max
         THEN [raised |-> TRUE, desc |-> << >>]
         ELSE [raised |-> FALSE,
               desc |-> [k \in 1..(c.n_atoms_max * c.n_atoms_max) |->
                          IF (k - 1) \div c.n_atoms_max < ase.natoms
                             /\ (k - 1) % c.n_atoms_max < ase.natoms
                          THEN AtomValue(ase) ELSE 0]]
    ELSE IF ~SpeciesCover(c.species, ase.smiles)
    THEN [raised |-> TRUE, desc |-> << >>]
    ELSE IF c.variant = "SOAP" /\ c.average = "off"
    THEN [raised |-> FALSE,
          desc |-> [k \in 1..(get_number_of_features(c) * ase.natoms) |->
                     AtomValue(ase)]]
    ELSE [raised |-> FALSE,
          desc |-> [k \in 1..get_number_of_features(c) |-> AtomValue(ase)]]

\* Mutant: the except branch hands back a vector that is not zeroed.
compute_from_ASE_unzeroed(c, ase) ==
    LET r == BuilderCreate(c, ase)
    IN  IF r.raised
        THEN [desc |-> [k \in 1..get_number_of_features(c) |-> 1], success |-> FALSE]
        ELSE [desc |-> r.desc, success |-> TRUE]

\* _CoulombMatrixDesc_compute_from_ASE, _SOAPDesc_compute_from_ASE and
\* _MBTRDesc_compute_from_ASE share one body: the builder's vector and
\* True, or zeros of the builder's feature count and False when it raises.
compute_from_ASE(c, ase) ==
    LET r == BuilderCreate(c, ase)
    IN  IF r.raised
        THEN [desc |-> Zeros(get_number_of_features(c)), success |-> FALSE]
        ELSE [desc |-> r.desc, success |-> TRUE]

\* The arguments of self.cache_desc_fun that joblib hashes into the
\* descriptor-cache key: the builder and ase_mol are in ignore=[...]; the
\* SMILES is the caller's string, not the canonical one.  Arguments a
\* variant does not pass are "-" (0 for n_atoms_max).
DescKey(c, smiles) ==
    [func |-> c.variant,
     smiles |-> smiles,
     n_atoms_max |-> IF c.variant = "MBTR" THEN 0 ELSE c.n_atoms_max,
     species |-> IF c.variant = "CM" THEN "-" ELSE c.species,
     average |-> IF c.variant = "SOAP" THEN c.average ELSE "-",
     geom_function_name |-> GeometryFunctionName(c.MM_program)]

\* get_row_size of the three cache-backed variants and the random one.
get_row_size(c) ==
    IF c.variant = "Random" THEN c.vect_size
    ELSE IF c.variant = "SOAP" /\ c.average = "off"
    THEN get_number_of_features(c) * c.n_atoms_max
    ELSE get_number_of_features(c)

\* ------------------------------------------------------------------- state
VARIABLES
    cfg,        \* cfg[d]: the configuration instance d was constructed with
    geomCache,  \* joblib store of the geometry function: key -> (xyz, success)
    descCache,  \* joblib store of compute_from_ASE: key -> (desc, success)
    call,       \* call[d]: the transform call of d in progress, its rows
    out,        \* out[d]: what the last transform call of d gave its caller
    hist,       \* hist[d][smiles]: last pair transform_row returned (history)
    ncalls,     \* transform calls started so far
    vect_size,     \* ShinglesVectDesc: length of the output vector
    count,         \* ShinglesVectDesc: count shingles (list) or presence (set)
    next_id,       \* ShinglesVectDesc: next free index
    desc_id_dict,  \* ShinglesVectDesc: shingle -> index
    shOut,         \* ShinglesVectDesc: what the last call gave its caller
    shCalls        \* ShinglesVectDesc: calls made so far

dVars == <<cfg, geomCache, descCache, call, out, hist, ncalls>>
shVars == <<vect_size, count, next_id, desc_id_dict, shOut, shCalls>>
vars == <<dVars, shVars>>

NoRet == [desc |-> << >>, success |-> FALSE]
NoMethod == [func |-> "-", ff |-> "-", kw |-> {}]
NoPrev == [seen |-> FALSE, ret |-> NoRet]

\* The geometry method of a configuration: function, force field and the
\* parameters it is called with.
MethodOf(c) ==
    [func |-> GeometryFunctionName(c.MM_program),
     ff |-> IF c.MM_program = "rdkit_uff" THEN "UFF" ELSE "default",
     kw |-> GeometryFunctionParameters(c.MM_program, c.MM_program_parameters)]

\* One transform_row invocation: where it stands (pending, geom: inside the
\* geometry function, desc: inside compute_from_ASE, done, raised), its
\* canonical SMILES, geometry and returned pair.  hit, by and prev are
\* history: whether the descriptor came from the cache, the geometry method
\* of the instance that stored it, and the pair this instance returned for
\* the same SMILES before this invocation started.  geo and dsc are what
\* compute_geometry and self.cache_desc_fun reported to transform_row
\* ("none" while they have not returned, "ok", "failed"); looked and built
\* tell whether self.cache_desc_fun was called and whether the call reached
\* the builder.
NewTask ==
    [pc |-> "pending", smiles |-> "", ase |-> NoAse, ret |-> NoRet,
     hit |-> FALSE, by |-> NoMethod, prev |-> NoPrev,
     geo |-> "none", dsc |-> "none", looked |-> FALSE, built |-> FALSE]

Idle == [active |-> FALSE, X |-> << >>, tasks |-> << >>, arrival |-> << >>]

\* kind, results and successes are what the caller gets; X, rows (the
\* transform_row invocations) and arrival (the order in which they ended)
\* are the call's history.
NoOut ==
    [kind |-> "none", X |-> << >>, results |-> << >>, successes |-> << >>,
     rows |-> << >>, arrival |-> << >>]

Cached(c) == c.cache_location # "None"

\* joblib MemorizedFunc: store the output under the key.
Put(cache, k, v) ==
    [x \in DOMAIN cache \cup {k} |-> IF x = k THEN v ELSE cache[x]]

\* What a ShinglesVectDesc call gave its caller (kind, matrix, success
\* vector), with the call's history: the input, the order in which each
\* molecule's shingles were iterated, and the mapping and counter the call
\* started from.
NoShOut ==
    [kind |-> "none", X |-> << >>, desc |-> << >>, successes |-> << >>,
     found |-> << >>, dict0 |-> << >>, next0 |-> 0]

Init ==
    /\ cfg \in {f \in [Inst -> Configs] : f["a"].variant = f["b"].variant}
    /\ geomCache = << >>
    /\ descCache = << >>
    /\ call = [d \in Inst |-> Idle]
    /\ out = [d \in Inst |-> NoOut]
    /\ hist = [d \in Inst |-> [s \in Smiles |-> NoPrev]]
    /\ ncalls = 0
    /\ vect_size = 0
    /\ count = FALSE
    /\ next_id = 0
    /\ desc_id_dict = << >>
    /\ shOut = NoShOut
    /\ shCalls = 0

\* ------------------------------------------------------------ transform_row
\* SOAPDesc.transform_row, after the cache call: the vector is copied into
\* the first positions of a zero row.  numpy raises ValueError when the
\* vector is longer than the row (complete_desc[:len(soap_desc)] is then
\* the whole row, and the longer vector cannot be broadcast into it).
SOAPDesc_pad(c, desc) ==
    IF Len(desc) > get_row_size(c)
    THEN [raised |-> TRUE, desc |-> << >>]
    ELSE [raised |-> FALSE,
          desc |-> [k \in 1..get_row_size(c) |->
                     IF k <= Len(desc) THEN desc[k] ELSE 0]]

\* The end of transform_row in the ase_success branch (ase_success is True
\* here): the returned pair, or the exception that escapes.
RowAfterDescriptor(c, t, desc, success) ==
    LET td == [t EXCEPT !.dsc = IF success THEN "ok" ELSE "failed"]
    IN  IF c.variant = "SOAP"
        THEN LET p == SOAPDesc_pad(c, desc)
             IN  IF p.raised THEN [td EXCEPT !.pc = "raised"]
                 ELSE [td EXCEPT !.pc = "done",
                                 !.ret = [desc |-> p.desc, success |-> success]]
        ELSE [td EXCEPT !.pc = "done",
                        !.ret = [desc |-> desc, success |-> success]]

\* Mutant: the descriptor is computed whatever compute_geometry reported.
RowGeometryFailed_compute(c, t) ==
    [t EXCEPT !.pc = "desc", !.geo = "failed", !.looked = TRUE, !.built = TRUE]

\* The else branch of transform_row: compute_geometry reported failure.
RowGeometryFailed(c, t) ==
    [t EXCEPT !.pc = "done", !.geo = "failed",
              !.ret = [desc |-> Zeros(get_row_size(c)), success |-> FALSE]]

\* transform_row from the return of self.cache_geom_fun on: read the XYZ
\* text, then self.cache_desc_fun, which returns the stored output when
\* the key is in the store and calls compute_from_ASE otherwise.
RowAfterGeometry(c, t, smi, xyz, success) ==
    IF ~success THEN RowGeometryFailed(c, t)
    ELSE LET ase == read_ase(t.smiles, xyz)
             k == DescKey(c, smi)
             tl == [t EXCEPT !.ase = ase, !.geo = "ok", !.looked = TRUE]
         IN  IF Cached(c) /\ k \in DOMAIN descCache
             THEN RowAfterDescriptor(c, [tl EXCEPT !.hit = TRUE,
                                                   !.by = descCache[k].by],
                                     descCache[k].desc, descCache[k].success)
             ELSE [tl EXCEPT !.pc = "desc", !.built = TRUE]

\* RandomGaussianVectorDesc.transform_row: a fresh sample per call.
RandomVectors(c) == [1..c.vect_size -> {0, 1}]

Running(d) ==
    Cardinality({j \in 1..Len(call[d].tasks) :
                    call[d].tasks[j].pc \in {"geom", "desc"}})

\* A row reached done or raised: it is handed back to the parent, and a
\* returned pair is remembered as the instance's last answer for the SMILES.
Complete(d, i, t) ==
    /\ call' = [call EXCEPT ![d].tasks[i] = t,
                            ![d].arrival =
                                IF t.pc \in {"done", "raised"}
                                THEN Append(@, i) ELSE @]
    /\ hist' = IF t.pc = "done"
               THEN [hist EXCEPT ![d][call[d].X[i]] =
                                     [seen |-> TRUE, ret |-> t.ret]]
               ELSE hist

\* A worker picks row i up (joblib dispatches in input order, at most
\* n_jobs at a time) and runs transform_row up to its first call of the
\* geometry function: canonicalisation, outside the try block, then the
\* geometry-cache lookup.
StartRow(d, i) ==
    LET c == cfg[d]
        smi == call[d].X[i]
        t == [call[d].tasks[i] EXCEPT !.prev = hist[d][smi]]
    IN  /\ call[d].active
        /\ i \in 1..Len(call[d].tasks)
        /\ call[d].tasks[i].pc = "pending"
        /\ \A j \in 1..(i - 1) : call[d].tasks[j].pc # "pending"
        /\ Running(d) < c.n_jobs
        /\ IF c.variant = "Random"
           THEN \E v \in RandomVectors(c) :
                   Complete(d, i, [t EXCEPT !.pc = "done",
                                            !.ret = [desc |-> v, success |-> TRUE]])
           ELSE LET canon == MolToSmiles(MolFromSmiles(smi))
                    k == GeomKey(c, canon.smiles)
                    tc == [t EXCEPT !.smiles = canon.smiles]
                IN  IF canon.raised
                    THEN Complete(d, i, [t EXCEPT !.pc = "raised"])
                    ELSE IF Cached(c) /\ k \in DOMAIN geomCache
                    THEN Complete(d, i, RowAfterGeometry(c, tc, smi, geomCache[k].xyz,
                                                         geomCache[k].success))
                    ELSE Complete(d, i, [tc EXCEPT !.pc = "geom"])
        /\ UNCHANGED <<shVars, cfg, geomCache, descCache, out, ncalls>>

\* The geometry function returns (or raises) in compute_geometry: joblib
\* stores a returned output; an exception is caught and becomes
\* (None, False).  transform_row goes on to the descriptor-cache lookup.
GeomReturn(d, i) ==
    LET c == cfg[d]
        t == call[d].tasks[i]
        k == GeomKey(c, t.smiles)
        r == geometry_function(k.func, k.smiles, k.ff, k.kw)
    IN  /\ call[d].active
        /\ i \in 1..Len(call[d].tasks)
        /\ t.pc = "geom"
        /\ IF r.raised
           THEN /\ Complete(d, i, RowGeometryFailed(c, t))
                /\ UNCHANGED geomCache
           ELSE /\ Complete(d, i, RowAfterGeometry(c, t, call[d].X[i], r.xyz, r.success))
                /\ geomCache' = IF Cached(c)
                                THEN Put(geomCache, k, [xyz |-> r.xyz, success |-> r.success])
                                ELSE geomCache
        /\ UNCHANGED <<shVars, cfg, descCache, out, ncalls>>

\* compute_from_ASE returns inside self.cache_desc_fun: joblib stores the
\* output under the key (last write wins) and transform_row finishes.
DescReturn(d, i) ==
    LET c == cfg[d]
        t == call[d].tasks[i]
        k == DescKey(c, call[d].X[i])
        r == compute_from_ASE(c, t.ase)
    IN  /\ call[d].active
        /\ i \in 1..Len(call[d].tasks)
        /\ t.pc = "desc"
        /\ Complete(d, i, RowAfterDescriptor(c, t, r.desc, r.success))
        /\ descCache' = IF Cached(c)
                        THEN Put(descCache, k, [desc |-> r.desc, success |-> r.success,
                                                by |-> MethodOf(c)])
                        ELSE descCache
        /\ UNCHANGED <<shVars, cfg, geomCache, out, ncalls>>

\* ---------------------------------------------------------------- transform
\* Mutant: the return values are listed in the order the rows ended.
ParallelResults_arrival(tasks, arrival) ==
    [i \in 1..Len(tasks) |-> tasks[arrival[i]].ret]

\* joblib Parallel: the list of the rows' return values, in the order the
\* rows were submitted.
ParallelResults(tasks, arrival) == [i \in 1..Len(tasks) |-> tasks[i].ret]

\* results[i] = desc_row in numpy: a row of the full length is copied, a
\* row of length 1 is broadcast, any other length raises ValueError.
AssignRow(n, desc_row) ==
    IF Len(desc_row) = n THEN [raised |-> FALSE, row |-> desc_row]
    ELSE IF Len(desc_row) = 1
    THEN [raised |-> FALSE, row |-> [k \in 1..n |-> desc_row[1]]]
    ELSE [raised |-> TRUE, row |-> << >>]

Inputs(d) ==
    UNION {[1..n -> Smiles] : n \in 0..(IF d = "a" THEN MaxLen ELSE MaxLenOther)}

\* Descriptor.transform is called on X: the rows are handed to Parallel.
CallTransform(d, X) ==
    /\ ~call[d].active
    /\ ncalls < MaxCalls
    /\ ncalls' = ncalls + 1
    /\ call' = [call EXCEPT ![d] = [active |-> TRUE, X |-> X,
                                    tasks |-> [i \in 1..Len(X) |-> NewTask],
                                    arrival |-> << >>]]
    /\ out' = [out EXCEPT ![d] = NoOut]
    /\ UNCHANGED <<shVars, cfg, geomCache, descCache, hist>>

\* A row raised: Parallel re-raises it in the parent and the transform call
\* ends with that exception; rows still pending or running are dropped.
TransformRaise(d) ==
    /\ call[d].active
    /\ \E i \in 1..Len(call[d].tasks) : call[d].tasks[i].pc = "raised"
    /\ out' = [out EXCEPT ![d] = [NoOut EXCEPT !.kind = "raised", !.X = call[d].X]]
    /\ call' = [call EXCEPT ![d] = Idle]
    /\ UNCHANGED <<shVars, cfg, geomCache, descCache, hist, ncalls>>

\* Every row returned: the matrix and the success vector are filled from
\* results_parallel in a loop over i = 0, 1, ... and returned.
TransformReturn(d) ==
    LET c == cfg[d]
        n == Len(call[d].X)
        rp == ParallelResults(call[d].tasks, call[d].arrival)
        as == [i \in 1..n |-> AssignRow(get_row_size(c), rp[i].desc)]
    IN  /\ call[d].active
        /\ \A i \in 1..n : call[d].tasks[i].pc = "done"
        /\ out' = [out EXCEPT ![d] =
                     IF \E i \in 1..n : as[i].raised
                     THEN [NoOut EXCEPT !.kind = "raised", !.X = call[d].X]
                     ELSE [kind |-> "returned", X |-> call[d].X,
                           results |-> [i \in 1..n |-> as[i].row],
                           successes |-> [i \in 1..n |-> rp[i].success],
                           rows |-> [i \in 1..n |-> call[d].tasks[i]],
                           arrival |-> call[d].arrival]]
        /\ call' = [call EXCEPT ![d] = Idle]
        /\ UNCHANGED <<shVars, cfg, geomCache, descCache, hist, ncalls>>

Next ==
    \/ \E d \in Inst : \E X \in Inputs(d) : CallTransform(d, X)
    \/ \E d \in Inst, i \in 1..MaxLen : StartRow(d, i)
    \/ \E d \in Inst, i \in 1..MaxLen : GeomReturn(d, i)
    \/ \E d \in Inst, i \in 1..MaxLen : DescReturn(d, i)
    \/ \E d \in Inst : TransformRaise(d)
    \/ \E d \in Inst : TransformReturn(d)

Spec == Init /\ [][Next]_vars

\* ------------------------------------------------- properties of Descriptor
Tasks(d) == 1..Len(call[d].tasks)

\* A SMILES is malformed when it is empty or does not parse.
Malformed(smi) == smi = "" \/ ~MolFromSmiles(smi).ok

\* C1: transform_row never raises: every invocation that has ended returned
\* a pair whose vector has length get_row_size().
C1_TransformRowNeverRaises ==
    \A d \in Inst : \A i \in Tasks(d) :
        LET t == call[d].tasks[i]
        IN  /\ t.pc # "raised"
            /\ t.pc = "done" => Len(t.ret.desc) = get_row_size(cfg[d])

\* C2: failure isolation: a transform call whose input holds a malformed
\* and a valid SMILES ends by returning, with the malformed rows marked
\* failed and every valid row holding what its own transform_row returned.
C2_FailureIsolation ==
    \A d \in Inst :
        LET o == out[d]
        IN  ( /\ o.kind # "none"
              /\ \E i \in 1..Len(o.X) : Malformed(o.X[i])
              /\ \E i \in 1..Len(o.X) : ~Malformed(o.X[i]) )
            => /\ o.kind = "returned"
               /\ \A i \in 1..Len(o.X) :
                     IF Malformed(o.X[i]) THEN ~o.successes[i]
                     ELSE /\ o.results[i] = o.rows[i].ret.desc
                          /\ o.successes[i] = o.rows[i].ret.success

\* C3: every transform call returns a matrix of shape
\* (len(X), get_row_size()) and a success vector of length len(X).
C3_ShapeAlways ==
    \A d \in Inst :
        LET o == out[d]
        IN  o.kind # "none"
            => /\ o.kind = "returned"
               /\ Len(o.results) = Len(o.X)
               /\ Len(o.successes) = Len(o.X)
               /\ \A i \in 1..Len(o.X) : Len(o.results[i]) = get_row_size(cfg[d])

\* C4: row order: in a returned matrix, row i and success entry i are what
\* the transform_row invocation on X[i] returned, whatever the order in
\* which the invocations ended.
C4_RowOrder ==
    \A d \in Inst :
        LET o == out[d]
        IN  o.kind = "returned"
            => /\ Len(o.results) = Len(o.X)
               /\ \A i \in 1..Len(o.X) :
                     /\ o.results[i] = o.rows[i].ret.desc
                     /\ o.successes[i] = o.rows[i].ret.success

\* C4 witness: a returned call whose second row ended before its first and
\* whose two rows differ.
C4_Witness ==
    \E d \in Inst :
        /\ out[d].kind = "returned"
        /\ out[d].arrival = <<2, 1>>
        /\ out[d].results[1] # out[d].results[2]
        /\ out[d].successes[1] # out[d].successes[2]

\* C5: a descriptor value that transform_row takes from the descriptor
\* cache was stored by an instance with the same geometry method and
\* geometry-method parameters.
C5_NoCrossConfigHit ==
    \A d \in Inst :
        /\ \A i \in Tasks(d) :
              call[d].tasks[i].hit => call[d].tasks[i].by = MethodOf(cfg[d])
        /\ \A i \in 1..Len(out[d].rows) :
              out[d].rows[i].hit => out[d].rows[i].by = MethodOf(cfg[d])

\* C7: zero-row contract: every returned pair and every row of a returned
\* matrix whose success flag is False is all zeros and has length
\* get_row_size().
C7_ZeroRow ==
    \A d \in Inst :
        /\ \A i \in Tasks(d) :
              LET t == call[d].tasks[i]
              IN  (t.pc = "done" /\ ~t.ret.success)
                  => IsZero(t.ret.desc) /\ Len(t.ret.desc) = get_row_size(cfg[d])
        /\ out[d].kind = "returned"
           => \A i \in 1..Len(out[d].X) :
                 ~out[d].successes[i]
                 => /\ IsZero(out[d].results[i])
                    /\ Len(out[d].results[i]) = get_row_size(cfg[d])

\* C7 witness: a returned matrix with a row that failed in the geometry
\* step and a row that failed in the descriptor builder.
C7_Witness ==
    \E d \in Inst :
        /\ out[d].kind = "returned"
        /\ \E i, j \in 1..Len(out[d].X) :
              /\ ~out[d].successes[i] /\ out[d].rows[i].ase = NoAse
              /\ ~out[d].successes[j] /\ out[d].rows[j].ase # NoAse

\* C9: idempotence: with a cache location set, a transform_row invocation
\* of a cache-backed instance returns the pair the instance returned for
\* the same SMILES before, whatever other workers wrote in between.
C9_Idempotent ==
    \A d \in Inst : \A i \in Tasks(d) :
        LET t == call[d].tasks[i]
        IN  ( /\ cfg[d].variant # "Random"
              /\ Cached(cfg[d])
              /\ t.pc = "done"
              /\ t.prev.seen )
            => t.ret = t.prev.ret

\* C10: SOAP without averaging: once geometry and builder succeeded,
\* transform_row returns success = True and a row of length
\* get_number_of_features() * n_atoms_max that starts with the builder's
\* values (cut at the row length) and is zero after them; it never raises.
C10_SoapTruncates ==
    \A d \in Inst : \A i \in Tasks(d) :
        LET t == call[d].tasks[i]
            c == cfg[d]
            b == BuilderCreate(c, t.ase).desc
        IN  ( /\ c.variant = "SOAP" /\ c.average = "off"
              /\ t.pc \in {"done", "raised"}
              /\ t.ase # NoAse
              /\ SpeciesCover(c.species, t.ase.smiles) )
            => /\ t.pc = "done"
               /\ t.ret.success
               /\ Len(t.ret.desc) = get_number_of_features(c) * c.n_atoms_max
               /\ \A k \in 1..Len(t.ret.desc) :
                     t.ret.desc[k] = IF k <= Len(b) THEN b[k] ELSE 0

\* Variants whose transform_row is compute_geometry followed by
\* self.cache_desc_fun.
CacheBacked == {"CM", "SOAP", "MBTR"}

\* The rows of the call in progress and of the last returned call.
RowsOf(d) ==
    {call[d].tasks[i] : i \in Tasks(d)} \cup {out[d].rows[i] : i \in 1..Len(out[d].rows)}

\* C11: in the Coulomb-Matrix, SOAP and MBTR transform_row, a row whose
\* compute_geometry reported failure never calls the descriptor cache nor
\* the builder and returns (zero-vector, False); a returned success flag is
\* True exactly when the geometry step and the descriptor step both
\* reported success.
C11_GeometryGate ==
    \A d \in Inst : cfg[d].variant \in CacheBacked =>
        \A t \in RowsOf(d) :
            /\ t.geo = "failed"
               => /\ ~t.looked /\ ~t.built /\ t.dsc = "none"
                  /\ t.pc = "done"
                  /\ t.ret = [desc |-> Zeros(get_row_size(cfg[d])), success |-> FALSE]
            /\ t.pc = "done"
               => (t.ret.success <=> (t.geo = "ok" /\ t.dsc = "ok"))
            /\ t.built => t.looked
            /\ t.looked => t.geo = "ok"

\* C11 witness: a returned call of a cache-backed instance with a row whose
\* geometry failed, and a call with a row whose geometry succeeded and
\* whose descriptor step failed, and a row where both succeeded.
C11_Witness ==
    /\ \E d \in Inst :
          /\ cfg[d].variant \in CacheBacked
          /\ out[d].kind = "returned"
          /\ \E i, j \in 1..Len(out[d].rows) :
                /\ out[d].rows[i].geo = "failed" /\ ~out[d].successes[i]
                /\ out[d].rows[j].geo = "ok" /\ out[d].rows[j].dsc = "ok"
                /\ out[d].successes[j]
    /\ \E d \in Inst :
          /\ cfg[d].variant \in CacheBacked
          /\ \E t \in RowsOf(d) :
                t.pc = "done" /\ t.geo = "ok" /\ t.dsc = "failed" /\ ~t.ret.success

\* ========================================================= ShinglesVectDesc
\* Bounds of the shingles model.
MaxShLen == 2
MaxShCalls == 2
MaxSeed == 2
MaxSeedId == 3

\* Vector sizes the instance is constructed with.
VectSizes == {2, 4}

Molecules == {"C", "CN", "NC", "CC"}

\* extract_shingles(smi, lvl, as_list=True): one shingle per atom, in atom
\* order (memoised by joblib; it is a pure function of its arguments).
ShingleList(smi) ==
    IF smi = "C" THEN <<"C">>
    ELSE IF smi = "CN" THEN <<"CN", "NC">>
    ELSE IF smi = "NC" THEN <<"NC", "CN">>
    ELSE <<"CC", "CC">>

ShingleNames == {"C", "CN", "NC", "CC"}

Range(f) == {f[x] : x \in DOMAIN f}

Injective(f) == \A x, y \in DOMAIN f : f[x] = f[y] => x = y

Perms(S) == {f \in [1..Cardinality(S) -> S] : Injective(f)}

\* The orders in which `for shg in found_shingles` can iterate: the list
\* when count is set, any order of the set of shingles otherwise.
FoundShingles(smi, cnt) ==
    IF cnt THEN {ShingleList(smi)} ELSE Perms(Range(ShingleList(smi)))

\* External vocabulary mappings: a saved shingle -> index table (each index
\* used once), possibly with gaps and with indices beyond vect_size.
Seeds ==
    {f \in UNION {[D -> 0..MaxSeedId] :
                     D \in {E \in SUBSET ShingleNames :
                               Cardinality(E) \in 1..MaxSeed}} : Injective(f)}

MaxOf(S) == CHOOSE m \in S : \A x \in S : x <= m

\* ShinglesVectDesc.__init__ without (next_id = 0, empty mapping) or with
\* an external_desc_id_dict (next_id = max of its values + 1).
InitShingles ==
    /\ cfg = [d \in Inst |-> Config("Random", "obabel_mmff94", ParamsNone, 0, "-", "-", 1, "None")]
    /\ geomCache = << >>
    /\ descCache = << >>
    /\ call = [d \in Inst |-> Idle]
    /\ out = [d \in Inst |-> NoOut]
    /\ hist = [d \in Inst |-> [s \in Smiles |-> NoPrev]]
    /\ ncalls = 0
    /\ vect_size \in VectSizes
    /\ count \in BOOLEAN
    /\ \/ /\ next_id = 0
          /\ desc_id_dict = << >>
       \/ \E external_desc_id_dict \in Seeds :
             /\ next_id = MaxOf(Range(external_desc_id_dict)) + 1
             /\ desc_id_dict = external_desc_id_dict
    /\ shOut = NoShOut
    /\ shCalls = 0

\* ShinglesVectDesc.get_row_size and min_row_size.
ShinglesVectDesc_get_row_size == vect_size
ShinglesVectDesc_min_row_size == next_id

\* Mutant: a new shingle gets the size of the mapping as its index.
get_desc_id_len(dict, nid, desc) ==
    IF desc \notin DOMAIN dict
    THEN [dict |-> Put(dict, desc, Cardinality(DOMAIN dict)), next_id |-> nid + 1,
          id |-> Cardinality(DOMAIN dict)]
    ELSE [dict |-> dict, next_id |-> nid, id |-> dict[desc]]

\* ShinglesVectDesc.get_desc_id: the mapping and counter afterwards, and
\* the index returned.
get_desc_id(dict, nid, desc) ==
    IF desc \notin DOMAIN dict
    THEN [dict |-> Put(dict, desc, nid), next_id |-> nid + 1, id |-> nid]
    ELSE [dict |-> dict, next_id |-> nid, id |-> dict[desc]]

\* Mutant: an index beyond the vector wraps around to a column.
IncrementAt_wrap(vect, id) ==
    [raised |-> FALSE, vect |-> [vect EXCEPT ![(id % Len(vect)) + 1] = @ + 1]]

\* curr_shg_vect[id] += 1 in numpy, for id >= 0: IndexError when id is not
\* below the length of the vector.
IncrementAt(vect, id) ==
    IF id >= Len(vect) THEN [raised |-> TRUE, vect |-> vect]
    ELSE [raised |-> FALSE, vect |-> [vect EXCEPT ![id + 1] = @ + 1]]

\* The inner loop of transform over one molecule's shingles.  st holds the
\* mapping, the counter, the current row and whether IndexError was raised.
RECURSIVE ShinglesRow(_, _)
ShinglesRow(st, shgs) ==
    IF shgs = << >> \/ st.raised THEN st
    ELSE LET g == get_desc_id(st.dict, st.next_id, Head(shgs))
             a == IncrementAt(st.vect, g.id)
         IN  ShinglesRow([dict |-> g.dict, next_id |-> g.next_id,
                          vect |-> a.vect, raised |-> a.raised], Tail(shgs))

\* The outer loop of transform from row i on: bt holds the mapping, the
\* counter, the matrix and whether the call raised.
RECURSIVE ShinglesBatch(_, _, _)
ShinglesBatch(bt, found, i) ==
    IF i > Len(found) \/ bt.raised THEN bt
    ELSE LET r == ShinglesRow([dict |-> bt.dict, next_id |-> bt.next_id,
                               vect |-> Zeros(Len(bt.desc[i])), raised |-> FALSE],
                              found[i])
         IN  ShinglesBatch([dict |-> r.dict, next_id |-> r.next_id,
                            desc |-> IF r.raised THEN bt.desc
                                     ELSE [bt.desc EXCEPT ![i] = r.vect],
                            raised |-> r.raised], found, i + 1)

ShInputs == UNION {[1..n -> Molecules] : n \in 0..MaxShLen}

\* ShinglesVectDesc.transform(X), the sequential override: the mapping and
\* the counter keep what was assigned, also when IndexError ends the call.
ShinglesTransform(X, found) ==
    LET bt == ShinglesBatch([dict |-> desc_id_dict, next_id |-> next_id,
                             desc |-> [i \in 1..Len(X) |-> Zeros(vect_size)],
                             raised |-> FALSE], found, 1)
    IN  /\ shCalls < MaxShCalls
        /\ shCalls' = shCalls + 1
        /\ desc_id_dict' = bt.dict
        /\ next_id' = bt.next_id
        /\ shOut' = [kind |-> IF bt.raised THEN "raised" ELSE "returned",
                     X |-> X,
                     desc |-> IF bt.raised THEN << >> ELSE bt.desc,
                     successes |-> IF bt.raised THEN << >>
                                   ELSE [i \in 1..Len(X) |-> TRUE],
                     found |-> found, dict0 |-> desc_id_dict, next0 |-> next_id]
        /\ UNCHANGED <<dVars, vect_size, count>>

\* ShinglesVectDesc.transform_row: its body is `pass`; it returns None.
ShinglesTransformRow(smi) ==
    /\ shCalls < MaxShCalls
    /\ shCalls' = shCalls + 1
    /\ shOut' = [NoShOut EXCEPT !.kind = "row_None", !.X = <<smi>>,
                                !.dict0 = desc_id_dict, !.next0 = next_id]
    /\ UNCHANGED <<dVars, vect_size, count, next_id, desc_id_dict>>

NextShingles ==
    \/ \E X \in ShInputs :
          \E found \in {f \in [1..Len(X) -> UNION {FoundShingles(m, count) : m \in Molecules}] :
                            \A i \in 1..Len(X) : f[i] \in FoundShingles(X[i], count)} :
             ShinglesTransform(X, found)
    \/ \E smi \in Molecules : ShinglesTransformRow(smi)

SpecShingles == InitShingles /\ [][NextShingles]_vars

\* min_row_size of CoulombMatrixDesc, SOAPDesc and MBTRDesc (return
\* self.get_row_size()) and of RandomGaussianVectorDesc (self.vect_size).
min_row_size(c) == IF c.variant = "Random" THEN c.vect_size ELSE get_row_size(c)

\* ------------------------------------------- properties of ShinglesVectDesc
RECURSIVE Flatten(_)
Flatten(seqs) == IF seqs = << >> THEN << >> ELSE Head(seqs) \o Flatten(Tail(seqs))

FirstPos(seq, s) ==
    CHOOSE k \in 1..Len(seq) : seq[k] = s /\ \A j \in 1..(k - 1) : seq[j] # s

\* Shingles the last transform call added to the mapping.
NewShingles == DOMAIN desc_id_dict \ DOMAIN shOut.dict0

\* C6: vocabulary determinism.  The mapping is injective and every index
\* is below next_id; a transform call keeps every index the mapping held
\* and gives the shingles it adds the indices next_id, next_id + 1, ... in
\* the order of their first encounter.
C6_VocabularyDeterminism ==
    /\ Injective(desc_id_dict)
    /\ \A s \in DOMAIN desc_id_dict : desc_id_dict[s] < next_id
    /\ shOut.kind \in {"returned", "raised"}
       => LET flat == Flatten(shOut.found)
          IN  /\ \A s \in DOMAIN shOut.dict0 :
                    s \in DOMAIN desc_id_dict /\ desc_id_dict[s] = shOut.dict0[s]
              /\ \A s \in NewShingles :
                    /\ s \in Range(flat)
                    /\ desc_id_dict[s] =
                          shOut.next0
                          + Cardinality({u \in NewShingles :
                                           FirstPos(flat, u) < FirstPos(flat, s)})
              /\ next_id = shOut.next0 + Cardinality(NewShingles)
              /\ shOut.kind = "returned" => Range(flat) \subseteq DOMAIN desc_id_dict

\* C6 witness: an instance seeded with a mapping that has a gap, after a
\* returned transform call that added two shingles.
C6_Witness ==
    /\ shOut.kind = "returned"
    /\ shOut.dict0 # << >>
    /\ shOut.next0 > Cardinality(DOMAIN shOut.dict0)
    /\ Cardinality(NewShingles) >= 2

\* C8: capacity failure is fail-fast.  When a shingle met by a transform
\* call has an index at or beyond vect_size, the call ends with IndexError
\* and returns neither a matrix nor success flags; a returned matrix counts
\* every iterated shingle in the column of its index.
C8_CapacityFailFast ==
    shOut.kind \in {"returned", "raised"}
    => LET flat == Flatten(shOut.found)
       IN  /\ (\E s \in Range(flat) \cap DOMAIN desc_id_dict :
                   desc_id_dict[s] >= vect_size)
              => /\ shOut.kind = "raised"
                 /\ shOut.desc = << >>
                 /\ shOut.successes = << >>
           /\ shOut.kind = "returned"
              => \A i \in 1..Len(shOut.X) : \A j \in 1..vect_size :
                    shOut.desc[i][j] =
                        Cardinality({k \in 1..Len(shOut.found[i]) :
                                        desc_id_dict[shOut.found[i][k]] = j - 1})

\* C8 witness: a call that ended with IndexError on a shingle it had just
\* given the index vect_size or more.
C8_Witness ==
    /\ shOut.kind = "raised"
    /\ \E s \in NewShingles : desc_id_dict[s] >= vect_size

\* C12: min_row_size() is a lower bound of the row size: in every state of
\* every variant, also of a ShinglesVectDesc constructed from any seed
\* mapping and after any transform calls (returned or ended by IndexError),
\* min_row_size() <= get_row_size().
C12_MinRowSizeBound ==
    /\ \A d \in Inst : min_row_size(cfg[d]) <= get_row_size(cfg[d])
    /\ ShinglesVectDesc_min_row_size <= ShinglesVectDesc_get_row_size
====
